---- MODULE Spec2Model ----
(***************************************************************************)
(* Model of cupyx/scipy/signal/signaltools.py: the order-statistic filter  *)
(* entry points (medfilt, medfilt2d, order_filter), their kernel-size      *)
(* resolver (_get_kernel_size) and the Wiener filter (wiener).             *)
(*                                                                         *)
(* A behaviour is one API call on one caller-owned array: Init is the      *)
(* caller's array before the call, each action is one entry point run to   *)
(* completion.  The entry points keep no state between calls, so one call  *)
(* per behaviour covers every call.                                        *)
(*                                                                         *)
(* The collaborators that live outside signaltools.py (the rank-filter and *)
(* uniform-filter engine, _fix_sequence_arg, internal.prod) are modelled   *)
(* from their contracts.  Floating point is modelled by exact rationals    *)
(* extended with nan, +inf and -inf: the IEEE outcomes of a division by    *)
(* zero are kept, rounding is not.                                         *)
(*                                                                         *)
(* signaltools.py line 187 reads "kernel_size = ._util._fix_sequence_arg(" *)
(* with a stray dot; the model reads it as the call                        *)
(* _util._fix_sequence_arg(...) that the line spells out.                  *)
(***************************************************************************)
EXTENDS Integers, Sequences, FiniteSets, TLC

VARIABLES volume, call, outcome

vars == <<volume, call, outcome>>

\* ------------------------------------------------------------------ bounds
MaxLen == 3
MaxVal == 1
MaxKernel == 3
MaxDom == 3
MaxNoise == 1

\* ------------------------------------------------------- extended rationals
Abs(x) == IF x < 0 THEN -x ELSE x

RECURSIVE Gcd(_, _)
Gcd(a, b) == IF b = 0 THEN a ELSE Gcd(b, a % b)

NaN == <<"nan", 0, 1>>
PInf == <<"inf", 1, 1>>
NInf == <<"inf", -1, 1>>

Sign(x) == IF x > 0 THEN 1 ELSE IF x < 0 THEN -1 ELSE 0

\* the rational n/d in lowest terms, d > 0
Fin(n, d) ==
    IF d = 1 THEN <<"fin", n, 1>>
    ELSE LET g == Gcd(Abs(n), Abs(d))
             s == IF d < 0 THEN -1 ELSE 1
         IN  <<"fin", (s * n) \div g, (s * d) \div g>>

FromInt(v) == <<"fin", v, 1>>

IsFin(x) == x[1] = "fin"
IsNaN(x) == x[1] = "nan"
IsInf(x) == x[1] = "inf"

\* sign of an extended rational that is not nan
SignOf(x) == Sign(x[2])

Inf(s) == IF s > 0 THEN PInf ELSE NInf

FNeg(x) == IF IsNaN(x) THEN NaN ELSE <<x[1], -x[2], x[3]>>

FAdd(x, y) ==
    IF IsNaN(x) \/ IsNaN(y) THEN NaN
    ELSE IF IsInf(x) /\ IsInf(y) THEN (IF x = y THEN x ELSE NaN)
    ELSE IF IsInf(x) THEN x
    ELSE IF IsInf(y) THEN y
    ELSE Fin(x[2] * y[3] + y[2] * x[3], x[3] * y[3])

FSub(x, y) == FAdd(x, FNeg(y))

FMul(x, y) ==
    IF IsNaN(x) \/ IsNaN(y) THEN NaN
    ELSE IF IsInf(x) \/ IsInf(y)
         THEN (IF SignOf(x) * SignOf(y) = 0 THEN NaN ELSE Inf(SignOf(x) * SignOf(y)))
    ELSE Fin(x[2] * y[2], x[3] * y[3])

\* IEEE division: x/0 is +inf or -inf by the sign of x, 0/0 is nan
FDiv(x, y) ==
    IF IsNaN(x) \/ IsNaN(y) THEN NaN
    ELSE IF IsInf(x) /\ IsInf(y) THEN NaN
    ELSE IF IsInf(x) THEN (IF SignOf(y) < 0 THEN FNeg(x) ELSE x)
    ELSE IF IsInf(y) THEN FromInt(0)
    ELSE IF y[2] = 0 THEN (IF x[2] = 0 THEN NaN ELSE Inf(SignOf(x)))
    ELSE Fin(x[2] * y[3], x[3] * y[2])

\* IEEE comparison: every comparison with nan is false
FLt(x, y) ==
    IF IsNaN(x) \/ IsNaN(y) THEN FALSE
    ELSE IF IsInf(x) THEN (SignOf(x) < 0 /\ y # x)
    ELSE IF IsInf(y) THEN SignOf(y) > 0
    ELSE x[2] * y[3] < y[2] * x[3]

IsZero(x) == IsFin(x) /\ x[2] = 0

\* ------------------------------------------------------------------ arrays
\* An array is [dtype, shape, data]: shape a sequence of extents, data a
\* function from the 0-based index tuples of that shape to the elements.
\* Elements of every dtype are held as extended rationals; dtype is a tag.
RECURSIVE Idx(_)
Idx(shape) ==
    IF shape = <<>> THEN {<<>>}
    ELSE {<<i>> \o t : i \in 0..(shape[1] - 1), t \in Idx(Tail(shape))}

Ndim(a) == Len(a.shape)

RECURSIVE Prod(_)
Prod(s) == IF s = <<>> THEN 1 ELSE s[1] * Prod(Tail(s))

InBounds(shape, i) == \A d \in 1..Len(shape) : i[d] >= 0 /\ i[d] < shape[d]

RECURSIVE SetToSeq(_)
SetToSeq(S) ==
    IF S = {} THEN <<>>
    ELSE LET x == CHOOSE y \in S : TRUE IN <<x>> \o SetToSeq(S \ {x})

RECURSIVE FSumSeq(_)
FSumSeq(s) == IF s = <<>> THEN FromInt(0) ELSE FAdd(s[1], FSumSeq(Tail(s)))

\* ------------------------------------------------- window specifications
\* A kernel_size / mysize argument: None, a scalar, or a sequence.
NoneArg == [kind |-> "none", v |-> <<>>]
ScalarArg(k) == [kind |-> "scalar", v |-> <<k>>]
SeqArg(s) == [kind |-> "seq", v |-> s]

DefaultKernel == 3
DefaultMysize == 3

ErrNone == "none"
ErrShapeMismatch == "ShapeMismatchError"
ErrOddKernel == "Each element of kernel_size should be odd"
ErrOddDomain == "Each dimension of domain argument should have an odd number of elements."
Err2d == "input must be 2d"
ErrFootprint == "InvalidFootprintError"
ErrRank == "rank not within filter footprint size"
ErrFilterSize == "incorrect filter size"

\* the errors the entry points raise themselves, before any engine call
ValidationErrors == {ErrShapeMismatch, ErrOddKernel, ErrOddDomain, Err2d}

\* _util._fix_sequence_arg(arg, ndim, name, int): a scalar is broadcast to
\* ndim elements, a sequence must have ndim elements.
_fix_sequence_arg(arg, ndim) ==
    IF arg.kind = "scalar"
    THEN [err |-> ErrNone, v |-> [d \in 1..ndim |-> arg.v[1]]]
    ELSE IF Len(arg.v) # ndim
         THEN [err |-> ErrShapeMismatch, v |-> <<>>]
         ELSE [err |-> ErrNone, v |-> arg.v]

\* the test of line 189, (k % 2) != 1, on one element; % is Python's floored
\* modulo, so every negative odd k passes it
kernel_element_even(k) == (k % 2) # 1

_get_kernel_size(kernel_size, ndim) ==
    LET ks0 == IF kernel_size.kind = "none"
               THEN SeqArg([d \in 1..ndim |-> DefaultKernel])
               ELSE kernel_size
        fixed == _fix_sequence_arg(ks0, ndim)
    IN  IF fixed.err # ErrNone THEN fixed
        ELSE IF \E d \in 1..Len(fixed.v) : kernel_element_even(fixed.v[d])
             THEN [err |-> ErrOddKernel, v |-> <<>>]
             ELSE fixed

\* --------------------------------------------------- the rank-filter engine
\* A footprint is [shape, mask], mask a function from the index tuples of
\* shape to BOOLEAN.
FullFootprint(size) == [shape |-> size, mask |-> [f \in Idx(size) |-> TRUE]]
NoFootprint == [shape |-> <<>>, mask |-> <<>>]

\* The request an entry point hands to filters.rank_filter: the rank, either
\* size= (a kernel size) or footprint= (a mask), the output dtype ("input"
\* when output= is not passed) and the boundary mode.
RankRequest(rank, by, size, footprint, output) ==
    [rank |-> rank, by |-> by, size |-> size, footprint |-> footprint,
     output |-> output, mode |-> "constant"]

\* the footprint of a request: size= is expanded to an all-true rectangle
FootprintOf(req) ==
    IF req.by = "size" THEN FullFootprint(req.size) ELSE req.footprint

Selected(fp) == {f \in DOMAIN fp.mask : fp.mask[f]}
Popcount(fp) == Cardinality(Selected(fp))

\* the value at index i, the boundary constant 0 outside the array
At(a, i) == IF InBounds(a.shape, i) THEN a.data[i] ELSE FromInt(0)

\* the neighbour of c selected by footprint element f: axis d of the
\* footprint is centred at shape[d] \div 2
Neighbour(c, f, shape) == [d \in 1..Len(c) |-> c[d] + f[d] - (shape[d] \div 2)]

Gather(a, fp, c) ==
    LET sel == SetToSeq(Selected(fp))
    IN  [j \in 1..Len(sel) |-> At(a, Neighbour(c, sel[j], fp.shape))]

RECURSIVE Insert(_, _)
Insert(x, s) ==
    IF s = <<>> THEN <<x>>
    ELSE IF ~FLt(s[1], x) THEN <<x>> \o s
    ELSE <<s[1]>> \o Insert(x, Tail(s))

RECURSIVE Sort(_)
Sort(s) == IF s = <<>> THEN <<>> ELSE Insert(s[1], Sort(Tail(s)))

EngineFail(err) == [error |-> err, result |-> <<>>]

\* filters.rank_filter(input, rank, size=/footprint=, output=, mode='constant')
rank_filter(input, req) ==
    LET fp == FootprintOf(req)
    IN  IF Len(fp.shape) # Ndim(input) THEN EngineFail(ErrFootprint)
        ELSE IF \E d \in 1..Len(fp.shape) : fp.shape[d] <= 0 \/ fp.shape[d] % 2 # 1
             THEN EngineFail(ErrFootprint)
        ELSE IF ~(0 <= req.rank /\ req.rank < Popcount(fp))
             THEN EngineFail(ErrRank)
        ELSE [error |-> ErrNone,
              result |-> <<[dtype |-> IF req.output = "input" THEN input.dtype
                                       ELSE req.output,
                            shape |-> input.shape,
                            data |-> [c \in Idx(input.shape) |->
                                        Sort(Gather(input, fp, c))[req.rank + 1]]]>>]

\* ----------------------------------------------------------- call outcomes
\* What one call leaves behind: the error raised ("none" if it returned), the
\* warning flag, the steps it ran in order, the engine requests it made, the
\* array it returned (<<>> if none) and, for wiener, its intermediate arrays.
NoWiener ==
    [im |-> <<>>, local_mean |-> <<>>, local_var |-> <<>>, noise |-> NaN,
     divided |-> {}, written |-> {}, im_id |-> 0]

Outcome(err, warned, trace, requests, result) ==
    [error |-> err, warned |-> warned, trace |-> trace, engine |-> requests,
     result |-> result, w |-> NoWiener]

NoOutcome == Outcome(ErrNone, FALSE, <<>>, <<>>, <<>>)

\* ------------------------------------------------------------ order_filter
order_filter(a, domain, rank) ==
    IF \E d \in 1..Len(domain.shape) : domain.shape[d] % 2 # 1
    THEN Outcome(ErrOddDomain, FALSE, <<"check_domain">>, <<>>, <<>>)
    ELSE LET req == RankRequest(rank, "footprint", <<>>, domain, "input")
             eng == rank_filter(a, req)
         IN  Outcome(eng.error, FALSE, <<"check_domain", "rank_filter">>,
                     <<req>>, eng.result)

\* ----------------------------------------------------------------- medfilt
\* variant: the comparison taken as k >= s
medfilt_exceeds_or_equal(kernel_size, shape) ==
    \E d \in 1..Len(kernel_size) : kernel_size[d] >= shape[d]

\* line 144: any(k > s for k, s in zip(kernel_size, volume.shape))
medfilt_exceeds(kernel_size, shape) ==
    \E d \in 1..Len(kernel_size) : kernel_size[d] > shape[d]

\* variant: the 1-based middle position, (size + 1) // 2
medfilt_rank_one_based(kernel_size) == (Prod(kernel_size) + 1) \div 2

\* lines 148-149: size = prod(kernel_size); rank = size // 2
medfilt_rank(kernel_size) == Prod(kernel_size) \div 2

medfilt(vol, kernel_size) ==
    LET ks == _get_kernel_size(kernel_size, Ndim(vol))
    IN  IF ks.err # ErrNone
        THEN Outcome(ks.err, FALSE, <<"_get_kernel_size">>, <<>>, <<>>)
        ELSE LET warn == medfilt_exceeds(ks.v, vol.shape)
                 req == RankRequest(medfilt_rank(ks.v), "size", ks.v, NoFootprint, "float64")
                 eng == rank_filter(vol, req)
             IN  Outcome(eng.error, warn,
                         <<"_get_kernel_size">>
                             \o (IF warn THEN <<"warn">> ELSE <<>>)
                             \o <<"rank_filter">>,
                         <<req>>, eng.result)

\* --------------------------------------------------------------- medfilt2d
\* variant: the product parenthesised as k0 * (k1 // 2)
medfilt2d_order_half_axis(kernel_size) == kernel_size[1] * (kernel_size[2] \div 2)

\* line 180: order = kernel_size[0] * kernel_size[1] // 2
medfilt2d_order(kernel_size) == (kernel_size[1] * kernel_size[2]) \div 2

\* variant: kernel_size resolved before the input rank is tested
medfilt2d_kernel_first(input, kernel_size) ==
    LET ks == _get_kernel_size(kernel_size, Ndim(input))
    IN  IF ks.err # ErrNone
        THEN Outcome(ks.err, FALSE, <<"_get_kernel_size">>, <<>>, <<>>)
        ELSE IF Ndim(input) # 2
        THEN Outcome(Err2d, FALSE, <<"_get_kernel_size", "check_ndim">>, <<>>, <<>>)
        ELSE LET req == RankRequest(medfilt2d_order(ks.v), "size", ks.v,
                                    NoFootprint, "input")
                 eng == rank_filter(input, req)
             IN  Outcome(eng.error, FALSE,
                         <<"_get_kernel_size", "check_ndim", "rank_filter">>,
                         <<req>>, eng.result)

medfilt2d(input, kernel_size) ==
    IF Ndim(input) # 2
    THEN Outcome(Err2d, FALSE, <<"check_ndim">>, <<>>, <<>>)
    ELSE LET ks == _get_kernel_size(kernel_size, Ndim(input))
         IN  IF ks.err # ErrNone
             THEN Outcome(ks.err, FALSE, <<"check_ndim", "_get_kernel_size">>,
                          <<>>, <<>>)
             ELSE LET req == RankRequest(medfilt2d_order(ks.v), "size", ks.v,
                                         NoFootprint, "input")
                      eng == rank_filter(input, req)
                  IN  Outcome(eng.error, FALSE,
                              <<"check_ndim", "_get_kernel_size", "rank_filter">>,
                              <<req>>, eng.result)

\* ------------------------------------------------- the uniform-filter engine
ArrSub(a, b) == [c \in DOMAIN a |-> FSub(a[c], b[c])]
ArrAdd(a, b) == [c \in DOMAIN a |-> FAdd(a[c], b[c])]
ArrMul(a, b) == [c \in DOMAIN a |-> FMul(a[c], b[c])]

ArrMean(a, idx) ==
    FDiv(FSumSeq([j \in 1..Len(idx) |-> a[idx[j]]]), FromInt(Len(idx)))

\* q lies in the window of c: on axis d the window of a size-n axis runs from
\* c[d] - n \div 2 to c[d] - n \div 2 + n - 1
InWindow(c, q, size) ==
    \A d \in 1..Len(size) :
        /\ q[d] >= c[d] - (size[d] \div 2)
        /\ q[d] <= c[d] - (size[d] \div 2) + size[d] - 1

\* the window sum over n: the padding adds zeros, so the sum runs over the
\* elements of the array that lie in the window
BoxAverage(data, size, idx, n) ==
    [c \in DOMAIN data |->
        FDiv(FSumSeq([j \in 1..Len(idx) |->
                        IF InWindow(c, idx[j], size) THEN data[idx[j]]
                        ELSE FromInt(0)]), n)]

\* filters.uniform_filter(data, size, mode='constant'): the average of the
\* zero-padded window of each position; the window of a size-n axis has
\* n \div 2 elements before the position and the rest from it on
uniform_filter(shape, data, size) ==
    IF \E d \in 1..Len(size) : size[d] <= 0
    THEN [error |-> ErrFilterSize, data |-> <<>>]
    ELSE [error |-> ErrNone,
          data |-> BoxAverage(data, size, SetToSeq(DOMAIN data), FromInt(Prod(size)))]

\* ------------------------------------------------------------------ wiener
\* A noise argument: None, or a number.
NoNoise == [given |-> FALSE, v |-> NaN]
Noise(x) == [given |-> TRUE, v |-> FromInt(x)]

\* Buffers live in a heap, a sequence of element functions; the caller's
\* array is buffer 1.
InputId == 1
Alloc(heap, data) == [heap |-> Append(heap, data), id |-> Len(heap) + 1]

\* The locals of a wiener call in progress: the heap, the buffers that im,
\* local_mean, local_var and res name (0 while unbound), the noise power,
\* the positions divided at, the buffers updated in place, and the error.
WienerLocals(vol) ==
    [heap |-> <<vol.data>>, shape |-> vol.shape, error |-> ErrNone,
     im |-> InputId, local_mean |-> 0, local_var |-> 0, res |-> 0, out |-> 0,
     noise |-> NaN, divided |-> {}, written |-> {}, trace |-> <<"_fix_sequence_arg">>]

Bind(st, field, buf) == [st EXCEPT !.heap = buf.heap, ![field] = buf.id]
Step(st, name) == [st EXCEPT !.trace = Append(@, name)]

\* lines 70-72: mysize defaults to 3 and is broadcast; no oddness test
wiener_mysize(mysize, ndim) ==
    _fix_sequence_arg(IF mysize.kind = "none" THEN ScalarArg(DefaultMysize)
                     ELSE mysize, ndim)

\* line 73: im.astype(float, copy=False) returns im itself when im is
\* already float, a new buffer otherwise
astype_float(heap, id, dtype) ==
    IF dtype = "float64" THEN [heap |-> heap, id |-> id]
    ELSE Alloc(heap, heap[id])

wiener_cast(st, dtype) ==
    Step(Bind(st, "im", astype_float(st.heap, st.im, dtype)), "astype")

\* line 76: local_mean = uniform_filter(im, mysize, mode='constant')
wiener_mean_of(st, size, mean) ==
    IF mean.error # ErrNone THEN [st EXCEPT !.error = mean.error]
    ELSE Bind(st, "local_mean", Alloc(st.heap, mean.data))

wiener_local_mean(st, size) ==
    wiener_mean_of(Step(st, "uniform_filter"), size,
                   uniform_filter(st.shape, st.heap[st.im], size))

\* line 79: local_var = uniform_filter(im*im, mysize, mode='constant')
wiener_var_of(st, size, sq) ==
    Bind(st, "local_var",
         Alloc(sq.heap, uniform_filter(st.shape, sq.heap[sq.id], size).data))

wiener_local_var(st, size) ==
    wiener_var_of(Step(st, "uniform_filter"), size,
                  Alloc(st.heap, ArrMul(st.heap[st.im], st.heap[st.im])))

\* line 80: local_var -= local_mean*local_mean, in place
wiener_centre_var(st) ==
    [st EXCEPT !.heap[st.local_var] =
                   ArrSub(@, ArrMul(st.heap[st.local_mean], st.heap[st.local_mean])),
               !.written = @ \cup {st.local_var}]

\* variant: the test taken as "if not noise", which also replaces noise = 0
wiener_noise_falsy(noise, local_var) ==
    IF ~noise.given \/ IsZero(noise.v)
    THEN ArrMean(local_var, SetToSeq(DOMAIN local_var))
    ELSE noise.v

\* lines 83-84: if noise is None: noise = local_var.mean()
wiener_noise(noise, local_var) ==
    IF ~noise.given
    THEN ArrMean(local_var, SetToSeq(DOMAIN local_var))
    ELSE noise.v

wiener_estimate(st, noise) ==
    [st EXCEPT !.noise = wiener_noise(noise, st.heap[st.local_var])]

\* variant: res = im; res -= local_mean, the subtraction done in im's buffer
wiener_residual_inplace(heap, im_id, lm_id) ==
    [heap |-> [heap EXCEPT ![im_id] = ArrSub(@, heap[lm_id])], id |-> im_id]

\* line 87: res = im - local_mean, a new buffer
wiener_residual(heap, im_id, lm_id) ==
    Alloc(heap, ArrSub(heap[im_id], heap[lm_id]))

wiener_res(st) == Bind(st, "res", wiener_residual(st.heap, st.im, st.local_mean))

\* line 88: the positions at which noise / local_var is evaluated: the
\* division is an array operation over every element
wiener_divided(local_var, noise) == DOMAIN local_var

ScaleFactor(local_var, noise) ==
    [c \in DOMAIN local_var |-> FSub(FromInt(1), FDiv(noise, local_var[c]))]

\* line 88: res *= (1 - noise / local_var), in place
wiener_scale(st) ==
    [Step(st, "divide") EXCEPT
        !.heap[st.res] = ArrMul(@, ScaleFactor(st.heap[st.local_var], st.noise)),
        !.divided = wiener_divided(st.heap[st.local_var], st.noise),
        !.written = @ \cup {st.res}]

\* line 89: res += local_mean, in place
wiener_shift(st) ==
    [st EXCEPT !.heap[st.res] = ArrAdd(@, st.heap[st.local_mean]),
               !.written = @ \cup {st.res}]

\* line 90: cupy.where(local_var < noise, local_mean, res)
wiener_where(local_var, noise, local_mean, res) ==
    [c \in DOMAIN res |-> IF FLt(local_var[c], noise) THEN local_mean[c] ELSE res[c]]

wiener_select(st) ==
    Step(Bind(st, "out",
              Alloc(st.heap, wiener_where(st.heap[st.local_var], st.noise,
                                          st.heap[st.local_mean], st.heap[st.res]))),
         "where")

\* lines 78-90, once local_mean is there: nothing runs if its filter raised
wiener_rest(st, size, noise) ==
    IF st.error # ErrNone THEN st
    ELSE wiener_select(wiener_shift(wiener_scale(wiener_res(
             wiener_estimate(wiener_centre_var(wiener_local_var(st, size)), noise)))))

\* the outcome of a finished call and the heap it leaves
WienerOutcome(st, input) ==
    [out |-> IF st.error # ErrNone
             THEN Outcome(st.error, FALSE, st.trace, <<>>, <<>>)
             ELSE [error |-> ErrNone, warned |-> FALSE, trace |-> st.trace,
                   engine |-> <<>>,
                   result |-> <<[dtype |-> "float64", shape |-> st.shape,
                                 data |-> st.heap[st.out]]>>,
                   w |-> [im |-> input, local_mean |-> st.heap[st.local_mean],
                          local_var |-> st.heap[st.local_var], noise |-> st.noise,
                          divided |-> st.divided, written |-> st.written,
                          im_id |-> st.im]],
     heap |-> st.heap]

wiener_body(vol, ms, noise) ==
    IF ms.err # ErrNone
    THEN WienerOutcome([WienerLocals(vol) EXCEPT !.error = ms.err], vol.data)
    ELSE WienerOutcome(
             wiener_rest(wiener_local_mean(wiener_cast(WienerLocals(vol), vol.dtype),
                                           ms.v), ms.v, noise),
             vol.data)

\* the whole call
wiener(vol, mysize, noise) ==
    wiener_body(vol, wiener_mysize(mysize, Ndim(vol)), noise)

\* ------------------------------------------------------------ input sets
Vals == {FromInt(v) : v \in 0..MaxVal}

Shapes(n) ==
    {<<r>> : r \in 1..n}
    \cup {s \in {<<r, c>> : r \in 1..n, c \in 1..n} : s[1] * s[2] <= n}

DTypes == {"int64", "float64"}

\* the 1-D array of the median example, [5, 1, 9, 2, 8]
ExampleData ==
    LET s == <<5, 1, 9, 2, 8>>
    IN  [i \in Idx(<<Len(s)>>) |-> FromInt(s[i[1] + 1])]

Volumes ==
    UNION {{[dtype |-> t, shape |-> sh, data |-> d] :
               t \in DTypes, d \in [Idx(sh) -> Vals]} : sh \in Shapes(MaxLen)}
    \cup {[dtype |-> t, shape |-> <<5>>, data |-> ExampleData] : t \in DTypes}

KVals == (-MaxKernel)..MaxKernel

KernelArgs ==
    {NoneArg} \cup {ScalarArg(k) : k \in KVals} \cup {SeqArg(<<k>>) : k \in KVals}
    \cup {SeqArg(<<k1, k2>>) : k1 \in KVals, k2 \in KVals}

Domains ==
    UNION {{[shape |-> sh, mask |-> m] : m \in [Idx(sh) -> BOOLEAN]} :
              sh \in Shapes(MaxDom)}

Ranks == (-1)..MaxDom

Noises == {NoNoise} \cup {Noise(x) : x \in 0..MaxNoise}

\* ------------------------------------------------------------ specification
NoCall ==
    [op |-> "none", window |-> NoneArg, domain |-> NoFootprint, rank |-> 0,
     noise |-> NoNoise]

Init ==
    /\ volume \in Volumes
    /\ call = NoCall
    /\ outcome = NoOutcome

CallMedfilt ==
    /\ call.op = "none"
    /\ \E ks \in KernelArgs :
          /\ call' = [NoCall EXCEPT !.op = "medfilt", !.window = ks]
          /\ outcome' = medfilt(volume, ks)
    /\ UNCHANGED volume

CallMedfilt2d ==
    /\ call.op = "none"
    /\ \E ks \in KernelArgs :
          /\ call' = [NoCall EXCEPT !.op = "medfilt2d", !.window = ks]
          /\ outcome' = medfilt2d(volume, ks)
    /\ UNCHANGED volume

CallOrderFilter ==
    /\ call.op = "none"
    /\ \E dom \in Domains, r \in Ranks :
          /\ call' = [NoCall EXCEPT !.op = "order_filter", !.domain = dom, !.rank = r]
          /\ outcome' = order_filter(volume, dom, r)
    /\ UNCHANGED volume

\* the caller's array after the call is whatever the call left in buffer 1
Returns(run) ==
    /\ outcome' = run.out
    /\ volume' = [volume EXCEPT !.data = run.heap[InputId]]

CallWiener ==
    /\ call.op = "none"
    /\ \E ms \in KernelArgs, nz \in Noises :
          /\ call' = [NoCall EXCEPT !.op = "wiener", !.window = ms, !.noise = nz]
          /\ Returns(wiener(volume, ms, nz))

Next == CallMedfilt \/ CallMedfilt2d \/ CallOrderFilter \/ CallWiener

Spec == Init /\ [][Next]_vars

\* the order-statistic entry points alone
NextRank == CallMedfilt \/ CallMedfilt2d \/ CallOrderFilter

SpecRank == Init /\ [][NextRank]_vars

\* the Wiener filter alone
NextWiener == CallWiener

SpecWiener == Init /\ [][NextWiener]_vars

\* ------------------------------------------------------------------ claims
Returned == outcome.error = ErrNone /\ Len(outcome.result) = 1
Failed == outcome.error # ErrNone /\ Len(outcome.result) = 0
EngineInvoked == \E j \in 1..Len(outcome.trace) : outcome.trace[j] = "rank_filter"

IsEven(k) == k % 2 = 0
OddPositive(k) == k > 0 /\ k % 2 = 1

\* the window specification of the call has at least one even dimension
HasEvenDim ==
    IF call.op = "order_filter"
    THEN \E d \in 1..Len(call.domain.shape) : IsEven(call.domain.shape[d])
    ELSE \E d \in 1..Len(call.window.v) : IsEven(call.window.v[d])

\* C1: every entry point rejects every window specification with an even
\* dimension: the call fails and produces no output array.
C1_EvenWindowRejected ==
    (call.op # "none" /\ HasEvenDim) => Failed

\* C2: with noise >= 0, wiener never evaluates noise / local_var at a
\* position whose local_var is exactly zero.
C2_NoDivisionByZero ==
    (call.op = "wiener" /\ outcome.error = ErrNone
        /\ ~FLt(outcome.w.noise, FromInt(0)) /\ ~IsNaN(outcome.w.noise))
    => \A p \in outcome.w.divided : ~IsZero(outcome.w.local_var[p])

IsConstant(data) == \A p \in DOMAIN data, q \in DOMAIN data : data[p] = data[q]

NoiseNonNegative == ~call.noise.given \/ ~FLt(call.noise.v, FromInt(0))

\* C3: on a constant-valued input, with an odd window and noise absent or
\* >= 0, wiener returns local_mean at every position, with no error and no
\* undefined element.
C3_ConstantInputGivesLocalMean ==
    (call.op = "wiener" /\ IsConstant(volume.data) /\ NoiseNonNegative
        /\ LET ms == wiener_mysize(call.window, Ndim(volume))
           IN  ms.err = ErrNone /\ \A d \in 1..Len(ms.v) : OddPositive(ms.v[d]))
    => /\ Returned
       /\ \A p \in DOMAIN volume.data :
             /\ IsFin(outcome.result[1].data[p])
             /\ outcome.result[1].data[p] = outcome.w.local_mean[p]

\* the local mean and local variance as the filter is specified: the box
\* average of im, and the box average of im*im less the squared local mean
SpecLocalMean(vol, size) == uniform_filter(vol.shape, vol.data, size).data

SpecLocalVar(vol, size) ==
    ArrSub(uniform_filter(vol.shape, ArrMul(vol.data, vol.data), size).data,
           ArrMul(SpecLocalMean(vol, size), SpecLocalMean(vol, size)))

WienerFormula(im, lm, lv, nz) ==
    [p \in DOMAIN im |->
        IF FLt(lv[p], nz) THEN lm[p]
        ELSE FAdd(lm[p], FMul(FSub(im[p], lm[p]),
                              FSub(FromInt(1), FDiv(nz, lv[p]))))]

SpecNoise(noise, lv) ==
    IF noise.given THEN noise.v ELSE ArrMean(lv, SetToSeq(DOMAIN lv))

SpecOutput(im, noise, lm, lv) == WienerFormula(im, lm, lv, SpecNoise(noise, lv))

WienerBySpec(vol, size, noise) ==
    SpecOutput(vol.data, noise, SpecLocalMean(vol, size), SpecLocalVar(vol, size))

\* C4: wiener's output at p is local_mean[p] where local_var[p] < noise and
\* local_mean[p] + (im[p] - local_mean[p]) * (1 - noise/local_var[p])
\* elsewhere (in IEEE arithmetic), noise being the supplied value unchanged
\* (0 included) or, when absent, the mean of local_var over the array.
C4_WienerPointwise ==
    (call.op = "wiener" /\ outcome.error = ErrNone)
    => /\ Len(outcome.result) = 1
       /\ outcome.result[1].data =
             WienerBySpec(volume, wiener_mysize(call.window, Ndim(volume)).v, call.noise)

\* a wiener call with supplied noise 0 that returned, at some position, a
\* finite value other than the local mean
C4_Witness ==
    /\ call.op = "wiener" /\ Returned
    /\ call.noise.given /\ IsZero(call.noise.v)
    /\ \E p \in DOMAIN volume.data :
          /\ IsFin(outcome.result[1].data[p])
          /\ outcome.result[1].data[p] # outcome.w.local_mean[p]

\* the zero-padded k-element window of position i of a 1-D array
PaddedWindow(vol, i, k) ==
    [j \in 1..k |-> LET n == i + j - 1 - (k \div 2)
                    IN  IF n >= 0 /\ n < vol.shape[1] THEN vol.data[<<n>>]
                        ELSE FromInt(0)]

CountBelow(w, m) == Cardinality({j \in DOMAIN w : FLt(w[j], m)})
CountAbove(w, m) == Cardinality({j \in DOMAIN w : FLt(m, w[j])})

\* C5: on a 1-D array with odd kernel_size k, every output element of
\* medfilt is the element of rank floor(k/2) of its zero-padded window, its
\* median: a window value with at most floor(k/2) values below it and at most
\* floor(k/2) above it; on [5,1,9,2,8] with k = 3 the output at index 0 is 1.
C5_MedfiltIsMedian ==
    (call.op = "medfilt" /\ Ndim(volume) = 1)
    => LET ks == _get_kernel_size(call.window, 1)
       IN  (ks.err = ErrNone /\ OddPositive(ks.v[1]))
           => /\ Returned
              /\ outcome.engine[1].rank = ks.v[1] \div 2
              /\ \A i \in 0..(volume.shape[1] - 1) :
                    LET w == PaddedWindow(volume, i, ks.v[1])
                        m == outcome.result[1].data[<<i>>]
                    IN  /\ \E j \in DOMAIN w : w[j] = m
                        /\ CountBelow(w, m) <= ks.v[1] \div 2
                        /\ CountAbove(w, m) <= ks.v[1] \div 2
              /\ (volume.data = ExampleData /\ ks.v[1] = 3)
                    => outcome.result[1].data =
                         [i \in Idx(<<5>>) |-> FromInt(<<1, 5, 2, 8, 2>>[i[1] + 1])]

\* medfilt on the example array with kernel_size 3 returned 1 at index 0
C5_Witness ==
    /\ call.op = "medfilt" /\ Returned
    /\ volume.data = ExampleData
    /\ call.window = ScalarArg(3)
    /\ outcome.result[1].data[<<0>>] = FromInt(1)

\* C6: every (rank, footprint) request handed to the rank-filter engine has
\* odd positive footprint dimensions and 0 <= rank < popcount(footprint).
C6_EngineRequestsValid ==
    \A j \in 1..Len(outcome.engine) :
        LET req == outcome.engine[j]
            fp == FootprintOf(req)
        IN  /\ \A d \in 1..Len(fp.shape) : OddPositive(fp.shape[d])
            /\ 0 <= req.rank /\ req.rank < Popcount(fp)

LastStep == outcome.trace[Len(outcome.trace)]

\* C7: medfilt warns exactly when kernel_size passed validation and some
\* kernel dimension exceeds the volume extent; after the warning the engine
\* is still called and its outcome is the call's outcome (a result array
\* whenever the kernel is positive); a call failing validation does not warn.
C7_MedfiltWarning ==
    call.op = "medfilt"
    => LET ks == _get_kernel_size(call.window, Ndim(volume))
       IN  /\ outcome.warned <=>
                  (ks.err = ErrNone
                      /\ \E d \in 1..Len(ks.v) : ks.v[d] > volume.shape[d])
           /\ outcome.warned =>
                  /\ LastStep = "rank_filter"
                  /\ outcome.error = rank_filter(volume, outcome.engine[1]).error
                  /\ outcome.result = rank_filter(volume, outcome.engine[1]).result
                  /\ (\A d \in 1..Len(ks.v) : ks.v[d] > 0) => Returned
           /\ ks.err # ErrNone => (~outcome.warned /\ Failed)

\* medfilt warned and still returned the filtered array
C7_Witness ==
    /\ call.op = "medfilt" /\ outcome.warned /\ Returned

\* C8: a call that raises a validation error never invokes the engine and
\* produces no output; medfilt2d tests the input rank before it resolves
\* kernel_size, so a non-2-D input reports the shape error whatever the kernel.
C8_ValidationBeforeEngine ==
    /\ outcome.error \in ValidationErrors
          => (~EngineInvoked /\ Len(outcome.engine) = 0 /\ Len(outcome.result) = 0)
    /\ (call.op = "medfilt2d" /\ Ndim(volume) # 2)
          => (outcome.error = Err2d /\ outcome.trace = <<"check_ndim">>)
    /\ (call.op \in {"medfilt", "medfilt2d"} /\ HasEvenDim)
          => outcome.error \in ValidationErrors
    /\ (call.op = "order_filter" /\ HasEvenDim) => outcome.error = ErrOddDomain

\* medfilt2d on a 1-D input with an even kernel reported the shape error
C8_Witness ==
    /\ call.op = "medfilt2d" /\ Ndim(volume) = 1
    /\ HasEvenDim
    /\ outcome.error = Err2d

\* C9: on a 2-D input with a valid kernel_size, medfilt2d requests rank
\* (k0*k1)//2 over the full k0 x k1 rectangle in constant mode, the request
\* medfilt makes except for the output dtype (input dtype against float); for
\* (3,3), the default included, the rank is 4.
C9_Medfilt2dMatchesMedfilt ==
    (call.op = "medfilt2d" /\ Ndim(volume) = 2)
    => LET ks == _get_kernel_size(call.window, 2)
           med == medfilt(volume, call.window)
       IN  ks.err = ErrNone
           => /\ Len(outcome.engine) = 1 /\ Len(med.engine) = 1
              /\ outcome.engine[1].rank = (ks.v[1] * ks.v[2]) \div 2
              /\ outcome.engine[1].rank = med.engine[1].rank
              /\ FootprintOf(outcome.engine[1]) = FullFootprint(ks.v)
              /\ FootprintOf(outcome.engine[1]) = FootprintOf(med.engine[1])
              /\ outcome.engine[1].mode = "constant"
              /\ med.engine[1].mode = "constant"
              /\ outcome.engine[1].output = "input"
              /\ med.engine[1].output = "float64"
              /\ outcome.engine[1] = [med.engine[1] EXCEPT !.output = "input"]
              /\ ks.v = <<3, 3>> => outcome.engine[1].rank = 4
              /\ call.window \in {NoneArg, ScalarArg(DefaultKernel)} => ks.v = <<3, 3>>
              /\ outcome.error = med.error
              /\ Returned =>
                    /\ outcome.result[1].data = med.result[1].data
                    /\ outcome.result[1].dtype = volume.dtype
                    /\ med.result[1].dtype = "float64"

\* medfilt2d with the default kernel on a 2-D input requested rank 4
C9_Witness ==
    /\ call.op = "medfilt2d" /\ Ndim(volume) = 2
    /\ call.window = NoneArg
    /\ Returned
    /\ outcome.engine[1].rank = 4

\* C10: wiener leaves the caller's array unchanged, also when the input is
\* already float and astype returns the caller's buffer: no in-place update
\* of the call targets the caller's buffer.
C10_InputUnchanged ==
    [][volume' = volume /\ InputId \notin outcome'.w.written]_vars

\* wiener returned on a float input, whose astype is the caller's own buffer
C10_Witness ==
    /\ call.op = "wiener" /\ Returned
    /\ volume.dtype = "float64"
    /\ outcome.w.im_id = InputId
    /\ \E p \in DOMAIN volume.data : outcome.result[1].data[p] # volume.data[p]

====
